---------------------------- MODULE Spec2Model ----------------------------
(***************************************************************************)
(* Model of setup.py, the packaging manifest of dragonn.                   *)
(*                                                                         *)
(* Python strings that are parsed (dependency specifiers, links, entry     *)
(* points, name, version) are sequences of one-character strings, so that  *)
(* stripping a version constraint or splitting a target is computed.       *)
(* Opaque strings (description, download_url) are TLA+ strings.            *)
(***************************************************************************)
EXTENDS Integers, Sequences, FiniteSets, TLC

VARIABLES
    name_literal,     \* text of the 'name' literal, setup.py line 16
    version_literal,  \* text of the 'version' literal, setup.py line 7
    pc,               \* position of the running setup.py process
    run_name,         \* __name__ of the running module
    environ,          \* environment of the running process
    config,           \* the module global `config`
    setup_calls,      \* keyword records setup() received in this run
    install_status,   \* outcome of the installation tool in this run
    installed,        \* distribution present in the target environment
    prev_build,       \* the previous run: the literals it read, the config it built
    invocation        \* last run of the installed console command

vars == <<name_literal, version_literal, pc, run_name, environ, config,
          setup_calls, install_status, installed, prev_build, invocation>>

---------------------------------------------------------------------------
(* Bounds *)

MaxArgs == 1

Args == {"--help", "train"}

ArgSeqs == UNION {[1..n -> Args] : n \in 0..MaxArgs}

\* version texts an edit of line 7 may write; the empty text is malformed
Versions == {<<"0",".","2">>, <<"0",".","3">>, <<>>}

\* name texts an edit of line 16 may write; the empty text is malformed
Names == {<<"d","r","a","g","o","n","n">>, <<>>}

\* values of the DRAGONN_VERSION environment variable (<<>>: unset)
Environs == {<<>>, <<"9",".","9">>}

RunNames == {"__main__", "setup"}

---------------------------------------------------------------------------
(* The literals of setup.py *)

NoConfig == [unset |-> TRUE]

NoBuild == [first |-> TRUE]

NotInstalled == [absent |-> TRUE]

NoInvocation == [none |-> TRUE]

\* 'install_requires' with its last specifier naming numpy again
install_requires_dup ==
    << <<"n","u","m","p","y",">","=","1",".","9">>,
       <<"k","e","r","a","s",">","=","2",".","2",".","0">>,
       <<"t","e","n","s","o","r","f","l","o","w",">","=","1",".","6">>,
       <<"d","e","e","p","l","i","f","t">>,
       <<"s","h","a","p","e","l","y">>,
       <<"s","i","m","d","n","a","=","=","0",".","3">>,
       <<"m","a","t","p","l","o","t","l","i","b">>,
       <<"s","c","i","k","i","t","-","l","e","a","r","n">>,
       <<"p","y","d","o","t","_","n","g","=","=","1",".","0",".","0">>,
       <<"n","u","m","p","y">> >>

\* 'install_requires' with simdna given a minimum instead of an exact version
install_requires_unpinned ==
    << <<"n","u","m","p","y",">","=","1",".","9">>,
       <<"k","e","r","a","s",">","=","2",".","2",".","0">>,
       <<"t","e","n","s","o","r","f","l","o","w",">","=","1",".","6">>,
       <<"d","e","e","p","l","i","f","t">>,
       <<"s","h","a","p","e","l","y">>,
       <<"s","i","m","d","n","a",">","=","0",".","3">>,
       <<"m","a","t","p","l","o","t","l","i","b">>,
       <<"s","c","i","k","i","t","-","l","e","a","r","n">>,
       <<"p","y","d","o","t","_","n","g","=","=","1",".","0",".","0">>,
       <<"h","5","p","y">> >>

\* ['numpy>=1.9', 'keras>=2.2.0', 'tensorflow>=1.6', 'deeplift', 'shapely',
\*  'simdna==0.3', 'matplotlib', 'scikit-learn', 'pydot_ng==1.0.0', 'h5py']
install_requires ==
    << <<"n","u","m","p","y",">","=","1",".","9">>,
       <<"k","e","r","a","s",">","=","2",".","2",".","0">>,
       <<"t","e","n","s","o","r","f","l","o","w",">","=","1",".","6">>,
       <<"d","e","e","p","l","i","f","t">>,
       <<"s","h","a","p","e","l","y">>,
       <<"s","i","m","d","n","a","=","=","0",".","3">>,
       <<"m","a","t","p","l","o","t","l","i","b">>,
       <<"s","c","i","k","i","t","-","l","e","a","r","n">>,
       <<"p","y","d","o","t","_","n","g","=","=","1",".","0",".","0">>,
       <<"h","5","p","y">> >>

\* {'tensorflow with gpu': ['tensorflow-gpu>=1.7']}, as a set of
\* (label, specifiers) items
extras_requires ==
    { [label |-> <<"t","e","n","s","o","r","f","l","o","w"," ","w","i","t","h"," ","g","p","u">>,
       specifiers |-> << <<"t","e","n","s","o","r","f","l","o","w","-","g","p","u",">","=","1",".","7">> >>] }

\* 'dependency_links' with the archive of another simdna release
dependency_links_other_release ==
    << <<"h","t","t","p","s",":","/","/","g","i","t","h","u","b",".","c","o","m","/",
         "k","u","n","d","a","j","e","l","a","b","/","s","i","m","d","n","a","/",
         "t","a","r","b","a","l","l","/","0",".","4",
         "#","e","g","g","=","s","i","m","d","n","a","-","0",".","4">> >>

\* ["https://github.com/kundajelab/simdna/tarball/0.3#egg=simdna-0.3"]
dependency_links ==
    << <<"h","t","t","p","s",":","/","/","g","i","t","h","u","b",".","c","o","m","/",
         "k","u","n","d","a","j","e","l","a","b","/","s","i","m","d","n","a","/",
         "t","a","r","b","a","l","l","/","0",".","3",
         "#","e","g","g","=","s","i","m","d","n","a","-","0",".","3">> >>

\* 'entry_points' with a second console script of the same name
entry_points_two ==
    [console_scripts |->
        << <<"d","r","a","g","o","n","n"," ","="," ","d","r","a","g","o","n","n",".",
             "_","_","m","a","i","n","_","_",":","m","a","i","n">>,
           <<"d","r","a","g","o","n","n"," ","="," ","d","r","a","g","o","n","n",".",
             "c","l","i",":","m","a","i","n">> >>]

\* 'entry_points' with the command bound to another callable
entry_points_other_target ==
    [console_scripts |->
        << <<"d","r","a","g","o","n","n"," ","="," ","d","r","a","g","o","n","n",".",
             "c","l","i",":","r","u","n">> >>]

\* {'console_scripts': ['dragonn = dragonn.__main__:main']}
entry_points ==
    [console_scripts |->
        << <<"d","r","a","g","o","n","n"," ","="," ","d","r","a","g","o","n","n",".",
             "_","_","m","a","i","n","_","_",":","m","a","i","n">> >>]

\* the dict literal with 'dependency_links' formatted from the version text
ConfigVersionCoupled(name, version) ==
    [include_package_data |-> TRUE,
     description |-> "Deep RegulAtory GenOmic Neural Networks (DragoNN)",
     download_url |-> "https://github.com/kundajelab/dragonn",
     version |-> version,
     packages |-> <<"dragonn">>,
     setup_requires |-> <<>>,
     install_requires |-> install_requires,
     extras_requires |-> extras_requires,
     dependency_links |->
        << SubSeq(dependency_links[1], 1, 45) \o version
           \o SubSeq(dependency_links[1], 49, 60) \o version >>,
     scripts |-> <<>>,
     entry_points |-> entry_points,
     name |-> name]

\* the dict literal with an empty 'name'
ConfigEmptyName(name, version) ==
    [include_package_data |-> TRUE,
     description |-> "Deep RegulAtory GenOmic Neural Networks (DragoNN)",
     download_url |-> "https://github.com/kundajelab/dragonn",
     version |-> version,
     packages |-> <<"dragonn">>,
     setup_requires |-> <<>>,
     install_requires |-> install_requires,
     extras_requires |-> extras_requires,
     dependency_links |-> dependency_links,
     scripts |-> <<>>,
     entry_points |-> entry_points,
     name |-> <<>>]

\* the dict literal of lines 3-17, for the texts of its 'name' and 'version'
ConfigLiteral(name, version) ==
    [include_package_data |-> TRUE,
     description |-> "Deep RegulAtory GenOmic Neural Networks (DragoNN)",
     download_url |-> "https://github.com/kundajelab/dragonn",
     version |-> version,
     packages |-> <<"dragonn">>,
     setup_requires |-> <<>>,
     install_requires |-> install_requires,
     extras_requires |-> extras_requires,
     dependency_links |-> dependency_links,
     scripts |-> <<>>,
     entry_points |-> entry_points,
     name |-> name]

---------------------------------------------------------------------------
(* Reading of specifiers, links and entry points *)

Min(S) == CHOOSE x \in S : \A y \in S : x <= y

Max(S) == CHOOSE x \in S : \A y \in S : x >= y

\* characters that start a version constraint in a dependency specifier
ConstraintChars == {"<", ">", "=", "!", "~"}

ConstraintStart(s) ==
    LET at == {i \in 1..Len(s) : s[i] \in ConstraintChars}
    IN  IF at = {} THEN Len(s) + 1 ELSE Min(at)

\* the specifier with its version constraint stripped
PackageName(s) == SubSeq(s, 1, ConstraintStart(s) - 1)

Constraint(s) == SubSeq(s, ConstraintStart(s), Len(s))

ConstraintKind(s) ==
    LET c == Constraint(s)
    IN  IF c = <<>> THEN "unconstrained"
        ELSE IF Len(c) > 2 /\ SubSeq(c, 1, 2) = <<">", "=">> THEN "minimum"
        ELSE IF Len(c) > 2 /\ SubSeq(c, 1, 2) = <<"=", "=">> THEN "exact"
        ELSE "other"

ConstraintVersion(s) == LET c == Constraint(s) IN SubSeq(c, 3, Len(c))

Classify(reqs) ==
    [i \in 1..Len(reqs) |->
        [name |-> PackageName(reqs[i]), kind |-> ConstraintKind(reqs[i])]]

EggMarker == <<"#", "e", "g", "g", "=">>

\* positions where the egg fragment of a link starts
EggStarts(url) ==
    {i \in 1..Len(url) :
        /\ i + Len(EggMarker) - 1 <= Len(url)
        /\ SubSeq(url, i, i + Len(EggMarker) - 1) = EggMarker}

HasEgg(url) == EggStarts(url) # {}

EggFragment(url) == SubSeq(url, Max(EggStarts(url)) + Len(EggMarker), Len(url))

\* the (name, version) an egg fragment name-version names: split at the last '-'
EggTarget(url) ==
    LET f == EggFragment(url)
        dashes == {i \in 1..Len(f) : f[i] = "-"}
    IN  IF dashes = {}
        THEN [name |-> f, version |-> <<>>]
        ELSE [name |-> SubSeq(f, 1, Max(dashes) - 1),
              version |-> SubSeq(f, Max(dashes) + 1, Len(f))]

\* s without leading and trailing blanks
Strip(s) ==
    LET ink == {i \in 1..Len(s) : s[i] # " "}
    IN  IF ink = {} THEN <<>> ELSE SubSeq(s, Min(ink), Max(ink))

Positions(s, ch) == {i \in 1..Len(s) : s[i] = ch}

\* 'name = module:callable' read as its command name and its target
EntryPoint(s) ==
    LET eq == Positions(s, "=")
        cut == IF eq = {} THEN Len(s) + 1 ELSE Min(eq)
        target == Strip(SubSeq(s, cut + 1, Len(s)))
        colons == Positions(target, ":")
        split == IF colons = {} THEN Len(target) + 1 ELSE Min(colons)
    IN  [command |-> Strip(SubSeq(s, 1, cut - 1)),
         target |-> target,
         separators |-> Cardinality(colons),
         module |-> SubSeq(target, 1, split - 1),
         callable |-> SubSeq(target, split + 1, Len(target))]

Commands(scripts) == {EntryPoint(scripts[i]).command : i \in 1..Len(scripts)}

---------------------------------------------------------------------------
(* The installation tool and the launcher it generates *)

\* a descriptor the installation tool refuses: an empty name or version
Malformed(kwargs) == kwargs.name = <<>> \/ kwargs.version = <<>>

\* what setup() keeps of its keywords; the optional groups are read from
\* the keyword 'extras_require', any keyword it does not know is dropped
Distribution(kwargs) ==
    [name |-> kwargs.name,
     version |-> kwargs.version,
     description |-> kwargs.description,
     packages |-> kwargs.packages,
     install_requires |-> kwargs.install_requires,
     extras_require |->
        IF "extras_require" \in DOMAIN kwargs THEN kwargs.extras_require ELSE {},
     dependency_links |-> kwargs.dependency_links,
     entry_points |-> kwargs.entry_points]

\* what the callable behind the command may do
Outcomes ==
    {[kind |-> "return", status |-> 0], [kind |-> "return", status |-> 2],
     [kind |-> "raise", status |-> 1], [kind |-> "missing", status |-> 1]}

---------------------------------------------------------------------------
(* Operations *)

Init ==
    /\ name_literal = <<"d","r","a","g","o","n","n">>
    /\ version_literal = <<"0",".","2">>
    /\ pc = "idle"
    /\ run_name = "__main__"
    /\ environ = <<>>
    /\ config = NoConfig
    /\ setup_calls = <<>>
    /\ install_status = "none"
    /\ installed = NotInstalled
    /\ prev_build = NoBuild
    /\ invocation = NoInvocation

\* the maintainer rewrites the 'version' literal of line 7
EditVersion ==
    /\ pc = "idle"
    /\ \E v \in Versions \ {version_literal} : version_literal' = v
    /\ UNCHANGED <<name_literal, pc, run_name, environ, config, setup_calls,
                   install_status, installed, prev_build, invocation>>

\* the maintainer rewrites the 'name' literal of line 16
EditName ==
    /\ pc = "idle"
    /\ \E n \in Names \ {name_literal} : name_literal' = n
    /\ UNCHANGED <<version_literal, pc, run_name, environ, config, setup_calls,
                   install_status, installed, prev_build, invocation>>

\* setup.py is run as a script or imported; line 1 imports setup
Start ==
    /\ pc = "idle"
    /\ \E n \in RunNames : run_name' = n
    /\ \E e \in Environs : environ' = e
    /\ pc' = "imported"
    /\ config' = NoConfig
    /\ setup_calls' = <<>>
    /\ install_status' = "none"
    /\ UNCHANGED <<name_literal, version_literal, installed, prev_build,
                   invocation>>

\* lines 3-17 with 'version' taken from the environment when it is set
BuildFromEnviron ==
    /\ pc = "imported"
    /\ config' = [ConfigLiteral(name_literal, version_literal) EXCEPT
                    !.version = IF environ = <<>> THEN @ ELSE environ]
    /\ pc' = "built"
    /\ UNCHANGED <<name_literal, version_literal, run_name, environ,
                   setup_calls, install_status, installed, prev_build,
                   invocation>>

\* lines 3-17: config is bound to the dict literal
Build ==
    /\ pc = "imported"
    /\ config' = ConfigLiteral(name_literal, version_literal)
    /\ pc' = "built"
    /\ UNCHANGED <<name_literal, version_literal, run_name, environ,
                   setup_calls, install_status, installed, prev_build,
                   invocation>>

\* setup(**config): the keywords are the items of config; the tool refuses
\* a malformed descriptor and installs nothing, else installs it
CallSetup ==
    /\ setup_calls' = Append(setup_calls, config)
    /\ IF Malformed(config)
       THEN install_status' = "failed" /\ installed' = installed
       ELSE install_status' = "installed" /\ installed' = Distribution(config)

\* lines 19-20 without the test of __name__
UnguardedSetup ==
    /\ pc = "built"
    /\ CallSetup
    /\ pc' = "done"
    /\ UNCHANGED <<name_literal, version_literal, run_name, environ, config,
                   prev_build, invocation>>

\* lines 19-20: if __name__ == '__main__': setup(**config)
GuardedSetup ==
    /\ pc = "built"
    /\ IF run_name = "__main__"
       THEN CallSetup
       ELSE UNCHANGED <<setup_calls, install_status, installed>>
    /\ pc' = "done"
    /\ UNCHANGED <<name_literal, version_literal, run_name, environ, config,
                   prev_build, invocation>>

\* the process ends; its module globals end with it
Exit ==
    /\ pc = "done"
    /\ pc' = "idle"
    /\ prev_build' = [name |-> name_literal, version |-> version_literal,
                       config |-> config]
    /\ config' = NoConfig
    /\ UNCHANGED <<name_literal, version_literal, run_name, environ,
                   setup_calls, install_status, installed, invocation>>

\* a launcher that hands the callable the arguments without the first one
InvokeCommandShifted ==
    /\ pc = "idle"
    /\ installed # NotInstalled
    /\ \E i \in 1..Len(installed.entry_points.console_scripts),
          args \in ArgSeqs, o \in Outcomes :
          LET ep == EntryPoint(installed.entry_points.console_scripts[i])
          IN  invocation' =
                [command |-> ep.command,
                 argv |-> args,
                 outcome |-> o,
                 calls |-> IF o.kind = "missing" THEN <<>>
                           ELSE <<[module |-> ep.module,
                                   callable |-> ep.callable,
                                   args |-> IF args = <<>> THEN args
                                            ELSE Tail(args)]>>,
                 exit |-> [status |-> o.status,
                           failure |-> IF o.kind = "return" THEN "none"
                                       ELSE o.kind]]
    /\ UNCHANGED <<name_literal, version_literal, pc, run_name, environ,
                   config, setup_calls, install_status, installed,
                   prev_build>>

\* the installed console command is run with args: the launcher calls the
\* target of the command once with args and exits with what it returns; a
\* missing or raising callable is the failure of the process
InvokeCommand ==
    /\ pc = "idle"
    /\ installed # NotInstalled
    /\ \E i \in 1..Len(installed.entry_points.console_scripts),
          args \in ArgSeqs, o \in Outcomes :
          LET ep == EntryPoint(installed.entry_points.console_scripts[i])
          IN  invocation' =
                [command |-> ep.command,
                 argv |-> args,
                 outcome |-> o,
                 calls |-> IF o.kind = "missing" THEN <<>>
                           ELSE <<[module |-> ep.module,
                                   callable |-> ep.callable,
                                   args |-> args]>>,
                 exit |-> [status |-> o.status,
                           failure |-> IF o.kind = "return" THEN "none"
                                       ELSE o.kind]]
    /\ UNCHANGED <<name_literal, version_literal, pc, run_name, environ,
                   config, setup_calls, install_status, installed,
                   prev_build>>

Next ==
    \/ EditVersion
    \/ EditName
    \/ Start
    \/ Build
    \/ GuardedSetup
    \/ Exit
    \/ InvokeCommand

Spec == Init /\ [][Next]_vars

---------------------------------------------------------------------------
(* Properties *)

numpy == <<"n","u","m","p","y">>
keras == <<"k","e","r","a","s">>
tensorflow == <<"t","e","n","s","o","r","f","l","o","w">>
deeplift == <<"d","e","e","p","l","i","f","t">>
shapely == <<"s","h","a","p","e","l","y">>
simdna == <<"s","i","m","d","n","a">>
matplotlib == <<"m","a","t","p","l","o","t","l","i","b">>
scikit_learn == <<"s","c","i","k","i","t","-","l","e","a","r","n">>
pydot_ng == <<"p","y","d","o","t","_","n","g">>
h5py == <<"h","5","p","y">>
tensorflow_gpu == <<"t","e","n","s","o","r","f","l","o","w","-","g","p","u">>
dragonn == <<"d","r","a","g","o","n","n">>
dragonn_main == <<"d","r","a","g","o","n","n",".","_","_","m","a","i","n","_","_">>
main == <<"m","a","i","n">>

Built == config # NoConfig

NoDuplicateNames(reqs) ==
    \A i, j \in 1..Len(reqs) :
        i # j => PackageName(reqs[i]) # PackageName(reqs[j])

\* C1: in the descriptor setup.py builds, no two distinct positions of
\* 'install_requires' hold specifiers with the same package name (the
\* specifier with its version constraint stripped).
C1_NoDuplicateDependencyNames ==
    Built => NoDuplicateNames(config.install_requires)

C1_Witness ==
    /\ pc = "built"
    /\ Len(config.install_requires) > 1
    /\ PackageName(config.install_requires[1]) = numpy
    /\ Constraint(config.install_requires[1]) # <<>>

\* C2: the descriptor declares exactly one console command; its name is not
\* empty, its target has the form module:callable with one ':' between a
\* non-empty module path and a non-empty callable name, and no two console
\* entry points share a command name.
C2_SingleConsoleCommand ==
    Built =>
        LET scripts == config.entry_points.console_scripts
        IN  /\ DOMAIN config.entry_points = {"console_scripts"}
            /\ Len(scripts) = 1
            /\ \A i \in 1..Len(scripts) :
                  LET ep == EntryPoint(scripts[i])
                  IN  /\ ep.command # <<>>
                      /\ ep.separators = 1
                      /\ ep.module # <<>>
                      /\ ep.callable # <<>>
            /\ \A i, j \in 1..Len(scripts) :
                  i # j => EntryPoint(scripts[i]).command
                           # EntryPoint(scripts[j]).command

C2_Witness ==
    /\ pc = "built"
    /\ EntryPoint(config.entry_points.console_scripts[1]).command = dragonn
    /\ EntryPoint(config.entry_points.console_scripts[1]).callable = main

PinnedBy(reqs, target) ==
    \E i \in 1..Len(reqs) :
        /\ ConstraintKind(reqs[i]) = "exact"
        /\ PackageName(reqs[i]) = target.name
        /\ ConstraintVersion(reqs[i]) = target.version

\* C3: every link of 'dependency_links' carries an egg fragment name-version
\* for which 'install_requires' holds the exact-version specifier
\* name==version; the one link there is names simdna at its pinned version.
C3_LinksResolvePinnedDependencies ==
    Built =>
        /\ \A k \in 1..Len(config.dependency_links) :
              /\ HasEgg(config.dependency_links[k])
              /\ PinnedBy(config.install_requires,
                          EggTarget(config.dependency_links[k]))
        /\ Len(config.dependency_links) = 1
        /\ EggTarget(config.dependency_links[1]).name = simdna

C3_Witness ==
    /\ pc = "built"
    /\ EggTarget(config.dependency_links[1]) =
          [name |-> simdna, version |-> <<"0",".","3">>]
    /\ \E i \in 1..Len(config.install_requires) :
          /\ PackageName(config.install_requires[i]) = simdna
          /\ ConstraintVersion(config.install_requires[i]) = <<"0",".","3">>

\* C4: 'install_requires' classified by operator ('>=' minimum, '==' exact,
\* none unconstrained) is exactly: numpy minimum, keras minimum, tensorflow
\* minimum, deeplift unconstrained, shapely unconstrained, simdna exact,
\* matplotlib unconstrained, scikit-learn unconstrained, pydot_ng exact,
\* h5py unconstrained, ten specifiers in this order.
C4_RequiredDependencies ==
    Built =>
        Classify(config.install_requires) =
            << [name |-> numpy, kind |-> "minimum"],
               [name |-> keras, kind |-> "minimum"],
               [name |-> tensorflow, kind |-> "minimum"],
               [name |-> deeplift, kind |-> "unconstrained"],
               [name |-> shapely, kind |-> "unconstrained"],
               [name |-> simdna, kind |-> "exact"],
               [name |-> matplotlib, kind |-> "unconstrained"],
               [name |-> scikit_learn, kind |-> "unconstrained"],
               [name |-> pydot_ng, kind |-> "exact"],
               [name |-> h5py, kind |-> "unconstrained"] >>

C4_Witness ==
    /\ pc = "built"
    /\ Len(config.install_requires) = 10
    /\ ConstraintKind(config.install_requires[6]) = "exact"
    /\ ConstraintKind(config.install_requires[10]) = "unconstrained"

\* C5: the optional dependency groups the installation tool holds after
\* setup(**config) are exactly one group, whose specifiers are the single
\* minimum-version specifier of tensorflow-gpu.
C5_OneOptionalGroup ==
    installed # NotInstalled =>
        /\ Cardinality(installed.extras_require) = 1
        /\ \A g \in installed.extras_require :
              /\ Len(g.specifiers) = 1
              /\ PackageName(g.specifiers[1]) = tensorflow_gpu
              /\ ConstraintKind(g.specifiers[1]) = "minimum"

\* C6: every run of the declared console command calls dragonn.__main__:main
\* once with the arguments of the process unchanged and exits with what the
\* callable returns; a missing or raising callable is the failure of the
\* process, reported as it is.
C6_EntryPointForwarding ==
    invocation # NoInvocation =>
        /\ invocation.command = dragonn
        /\ invocation.outcome.kind = "missing" => invocation.calls = <<>>
        /\ invocation.outcome.kind # "missing" =>
              /\ Len(invocation.calls) = 1
              /\ invocation.calls[1] = [module |-> dragonn_main,
                                        callable |-> main,
                                        args |-> invocation.argv]
        /\ invocation.outcome.kind = "return" =>
              /\ invocation.exit.status = invocation.outcome.status
              /\ invocation.exit.failure = "none"
        /\ invocation.outcome.kind # "return" =>
              /\ invocation.exit.failure = invocation.outcome.kind
              /\ invocation.exit.status # 0

C6_Witness ==
    /\ invocation # NoInvocation
    /\ invocation.argv # <<>>
    /\ invocation.outcome.kind = "return"
    /\ invocation.exit.status = 2
    /\ Len(invocation.calls) = 1

\* C7: two evaluations of the same text of setup.py build the same config,
\* whatever the environment and the module name of either evaluation.
C7_Deterministic ==
    (/\ Built
     /\ prev_build # NoBuild
     /\ prev_build.name = name_literal
     /\ prev_build.version = version_literal)
    => config = prev_build.config

C7_Witness ==
    /\ pc = "built"
    /\ environ # <<>>
    /\ prev_build # NoBuild
    /\ prev_build.name = name_literal
    /\ prev_build.version = version_literal
    /\ config = prev_build.config

WellFormedLiterals == name_literal # <<>> /\ version_literal # <<>>

Dependencies(d) ==
    [install_requires |-> d.install_requires,
     extras_require |-> d.extras_require,
     dependency_links |-> d.dependency_links,
     packages |-> d.packages,
     entry_points |-> d.entry_points]

\* C8: after the version literal is changed (to a non-empty text, the name
\* unchanged), the next evaluation builds a config that differs from the
\* previous one in 'version' alone, and running it as the main script leaves
\* the installed version equal to the new text and the installed
\* dependencies, groups, links, packages and entry points as they were.
C8_VersionChangeKeepsDependencies ==
    /\ [](  (/\ Built
             /\ prev_build # NoBuild
             /\ prev_build.name = name_literal)
            => /\ config.version = version_literal
               /\ DOMAIN config = DOMAIN prev_build.config
               /\ \A k \in DOMAIN config \ {"version"} :
                     config[k] = prev_build.config[k] )
    /\ [][ (/\ pc = "built" /\ pc' = "done"
            /\ run_name = "__main__"
            /\ WellFormedLiterals)
           => /\ installed'.version = version_literal
              /\ installed # NotInstalled /\ installed.name = name_literal
                    => Dependencies(installed') = Dependencies(installed)
         ]_vars

C8_Witness ==
    /\ pc = "done"
    /\ run_name = "__main__"
    /\ prev_build # NoBuild
    /\ prev_build.name = name_literal
    /\ prev_build.version = <<"0",".","2">>
    /\ version_literal = <<"0",".","3">>
    /\ installed # NotInstalled
    /\ installed.version = version_literal

\* C9: the installation fails only with an empty name or version; then it
\* fails at the call of setup(), once, with nothing installed; with the
\* repository's literals it never fails.
C9_FailsOnlyWhenMalformed ==
    /\ []( /\ (pc = "done" /\ install_status = "failed") => ~WellFormedLiterals
           /\ (pc = "done" /\ run_name = "__main__") =>
                 /\ Len(setup_calls) = 1
                 /\ install_status =
                       IF WellFormedLiterals THEN "installed" ELSE "failed"
           /\ (/\ pc = "done" /\ run_name = "__main__"
               /\ name_literal = dragonn
               /\ version_literal = <<"0",".","2">>)
              => install_status = "installed" )
    /\ [][ install_status' = "failed" => installed' = installed ]_vars

C9_Witness ==
    /\ pc = "done"
    /\ run_name = "__main__"
    /\ version_literal = <<>>
    /\ install_status = "failed"
    /\ installed # NotInstalled

\* C10: in a run of setup.py, config is bound once and not changed until
\* the process ends; setup() is called once when the file runs as
\* __main__ and never when it is imported, and the keywords it receives are
\* the items of config.
C10_DescriptorLifecycle ==
    /\ []( /\ pc \in {"imported", "built"} => setup_calls = <<>>
           /\ pc = "done" =>
                 /\ Len(setup_calls) = IF run_name = "__main__" THEN 1 ELSE 0
                 /\ \A i \in 1..Len(setup_calls) : setup_calls[i] = config )
    /\ [][ /\ (Built /\ pc' # "idle") => config' = config
           /\ (config' # config /\ config' # NoConfig)
                 => (pc = "imported" /\ config = NoConfig)
         ]_vars

C10_Witness ==
    /\ pc = "done"
    /\ run_name = "__main__"
    /\ Len(setup_calls) = 1
    /\ setup_calls[1] = config
    /\ DOMAIN setup_calls[1] = DOMAIN ConfigLiteral(name_literal, version_literal)

===========================================================================
